---- MODULE Spec2Model ----
(***************************************************************************)
(* Model of the database explorer API of the user-management dashboard:    *)
(* the middleware, the four route handlers (list tables, list rows, list   *)
(* foreign keys, row relationships) and the PostgreSQL store they query.   *)
(* A string that the code inspects character by character (search text,    *)
(* text values, LIKE patterns) is a sequence of one-character strings; an  *)
(* identifier (table, column, constraint name) is an atomic string.        *)
(***************************************************************************)
EXTENDS Integers, Sequences, FiniteSets, TLC

(***************************************************************************)
(* Bounds of the model.                                                    *)
(***************************************************************************)
MaxSearchLen == 2
MaxPage == 2
MaxLimit == 2
Today == 4

(***************************************************************************)
(* Program constants.                                                      *)
(***************************************************************************)
RetentionDays == 3
DefaultPage == 1
DefaultLimit == 10

(***************************************************************************)
(* Scalar values of a Record, as node-postgres hands them to the handler.  *)
(***************************************************************************)
NullV == [t |-> "null", n |-> 0, s |-> <<>>]
IntV(k) == [t |-> "int", n |-> k, s |-> <<>>]
TextV(str) == [t |-> "text", n |-> 0, s |-> str]
BoolV(b) == [t |-> "bool", n |-> IF b THEN 1 ELSE 0, s |-> <<>>]
TimeV(d) == [t |-> "time", n |-> d, s |-> <<>>]

Digits == <<"0", "1", "2", "3", "4", "5", "6", "7", "8", "9">>

\* Decimal rendering of a small natural number.
RECURSIVE Render(_)
Render(k) ==
  IF k < 10 THEN <<Digits[k + 1]>> ELSE Render(k \div 10) \o <<Digits[(k % 10) + 1]>>

\* value::text
CastText(v) ==
  CASE v.t = "null" -> NullV
    [] v.t = "text" -> v
    [] v.t = "bool" -> TextV(IF v.n = 1 THEN <<"t", "r", "u", "e">> ELSE <<"f", "a", "l", "s", "e">>)
    [] OTHER -> TextV(Render(v.n))

\* JavaScript truthiness of a value read from a row.
Truthy(v) ==
  ~ \/ v.t = "null"
    \/ (v.t = "int" /\ v.n = 0)
    \/ (v.t = "text" /\ v.s = <<>>)
    \/ (v.t = "bool" /\ v.n = 0)

Lower(c) == IF c = "A" THEN "a" ELSE IF c = "B" THEN "b" ELSE c

LowerStr(str) == [i \in 1..Len(str) |-> Lower(str[i])]

\* str ILIKE pat: % matches any run of characters, _ any one character.
RECURSIVE Like(_, _)
Like(str, pat) ==
  IF pat = <<>> THEN str = <<>>
  ELSE IF Head(pat) = "%" THEN Like(str, Tail(pat)) \/ (str # <<>> /\ Like(Tail(str), pat))
  ELSE IF str = <<>> THEN FALSE
  ELSE IF Head(pat) = "_" THEN Like(Tail(str), Tail(pat))
  ELSE Lower(Head(str)) = Lower(Head(pat)) /\ Like(Tail(str), Tail(pat))

(***************************************************************************)
(* The Record Store's catalog (information_schema).  The schema does not   *)
(* change while the program runs, so the catalog is a set of definitions.  *)
(***************************************************************************)
TRow(sch, name, type) == [table_schema |-> sch, table_name |-> name, table_type |-> type]

\* information_schema.tables
InfoTables ==
  << TRow("public", "users", "BASE TABLE"),
     TRow("public", "orders", "BASE TABLE"),
     TRow("public", "employees", "BASE TABLE"),
     TRow("public", "tags", "BASE TABLE"),
     TRow("public", "otps", "BASE TABLE"),
     TRow("public", "logs", "BASE TABLE"),
     TRow("public", "archive", "BASE TABLE"),
     TRow("public", "active_users", "VIEW"),
     TRow("audit", "orders", "BASE TABLE") >>

CRow(sch, tab, col, type, pos) ==
  [table_schema |-> sch, table_name |-> tab, column_name |-> col,
   data_type |-> type, ordinal_position |-> pos]

\* information_schema.columns
InfoColumns ==
  << CRow("public", "users", "id", "integer", 1),
     CRow("public", "users", "name", "text", 2),
     CRow("public", "users", "email", "character varying", 3),
     CRow("public", "users", "age", "integer", 4),
     CRow("public", "users", "tag", "text", 5),
     CRow("public", "orders", "id", "integer", 1),
     CRow("public", "orders", "user_id", "integer", 2),
     CRow("public", "orders", "approver_id", "integer", 3),
     CRow("public", "employees", "id", "integer", 1),
     CRow("public", "employees", "name", "character", 2),
     CRow("public", "employees", "manager_id", "integer", 3),
     CRow("public", "tags", "id", "integer", 1),
     CRow("public", "tags", "code", "text", 2),
     CRow("public", "otps", "id", "integer", 1),
     CRow("public", "otps", "code", "text", 2),
     CRow("public", "otps", "created_at", "timestamp without time zone", 3),
     CRow("public", "logs", "id", "integer", 1),
     CRow("public", "logs", "tag_id", "integer", 2),
     CRow("public", "logs", "tag_code", "text", 3),
     CRow("public", "logs", "parent_id", "integer", 4),
     CRow("public", "archive", "id", "integer", 1),
     CRow("public", "archive", "origin_id", "integer", 2),
     CRow("public", "active_users", "id", "integer", 1),
     CRow("audit", "orders", "id", "integer", 1),
     CRow("audit", "orders", "note", "text", 2) >>

TCRow(cname, sch, tab, type) ==
  [constraint_name |-> cname, table_schema |-> sch, table_name |-> tab,
   constraint_type |-> type]

\* information_schema.table_constraints
InfoTableConstraints ==
  << TCRow("users_pkey", "public", "users", "PRIMARY KEY"),
     TCRow("orders_user_id_fkey", "public", "orders", "FOREIGN KEY"),
     TCRow("orders_approver_id_fkey", "public", "orders", "FOREIGN KEY"),
     TCRow("employees_manager_id_fkey", "public", "employees", "FOREIGN KEY"),
     TCRow("users_tag_fkey", "public", "users", "FOREIGN KEY"),
     TCRow("logs_tag_fkey", "public", "logs", "FOREIGN KEY"),
     TCRow("parent_fkey", "public", "logs", "FOREIGN KEY"),
     TCRow("parent_fkey", "public", "archive", "FOREIGN KEY") >>

KRow(cname, sch, tab, col) ==
  [constraint_name |-> cname, table_schema |-> sch, table_name |-> tab, column_name |-> col]

\* information_schema.key_column_usage: the constrained (referencing) columns
InfoKeyColumnUsage ==
  << KRow("users_pkey", "public", "users", "id"),
     KRow("orders_user_id_fkey", "public", "orders", "user_id"),
     KRow("orders_approver_id_fkey", "public", "orders", "approver_id"),
     KRow("employees_manager_id_fkey", "public", "employees", "manager_id"),
     KRow("users_tag_fkey", "public", "users", "tag"),
     KRow("logs_tag_fkey", "public", "logs", "tag_id"),
     KRow("logs_tag_fkey", "public", "logs", "tag_code"),
     KRow("parent_fkey", "public", "logs", "parent_id"),
     KRow("parent_fkey", "public", "archive", "origin_id") >>

\* information_schema.constraint_column_usage: the columns a constraint uses
\* (for a foreign key, the referenced columns)
InfoConstraintColumnUsage ==
  << KRow("users_pkey", "public", "users", "id"),
     KRow("orders_user_id_fkey", "public", "users", "id"),
     KRow("orders_approver_id_fkey", "public", "users", "id"),
     KRow("employees_manager_id_fkey", "public", "employees", "id"),
     KRow("users_tag_fkey", "public", "tags", "code"),
     KRow("logs_tag_fkey", "public", "tags", "id"),
     KRow("logs_tag_fkey", "public", "tags", "code"),
     KRow("parent_fkey", "public", "logs", "id"),
     KRow("parent_fkey", "public", "archive", "id") >>

(***************************************************************************)
(* Table contents when the process starts.  A row is a record from column  *)
(* name to value; created_at is counted in days.                           *)
(***************************************************************************)
InitialRows ==
  [ users |->
      << [id |-> IntV(0), name |-> TextV(<<"a", "1">>), email |-> TextV(<<"A">>),
          age |-> IntV(2), tag |-> TextV(<<>>)],
         [id |-> IntV(1), name |-> TextV(<<"_">>), email |-> NullV,
          age |-> IntV(1), tag |-> NullV],
         [id |-> IntV(2), name |-> TextV(<<"A", "%">>), email |-> TextV(<<"1">>),
          age |-> IntV(0), tag |-> TextV(<<"1">>)] >>,
    orders |->
      << [id |-> IntV(1), user_id |-> IntV(1), approver_id |-> IntV(1)],
         [id |-> IntV(2), user_id |-> IntV(0), approver_id |-> NullV],
         [id |-> IntV(3), user_id |-> NullV, approver_id |-> IntV(1)] >>,
    employees |->
      << [id |-> IntV(1), name |-> TextV(<<"a">>), manager_id |-> NullV],
         [id |-> IntV(2), name |-> TextV(<<"A">>), manager_id |-> IntV(1)],
         [id |-> IntV(3), name |-> TextV(<<"1">>), manager_id |-> IntV(1)] >>,
    tags |->
      << [id |-> IntV(1), code |-> TextV(<<>>)],
         [id |-> IntV(2), code |-> TextV(<<"1">>)] >>,
    otps |->
      << [id |-> IntV(1), code |-> TextV(<<"1">>), created_at |-> TimeV(0)],
         [id |-> IntV(2), code |-> TextV(<<"a">>), created_at |-> TimeV(2)],
         [id |-> IntV(3), code |-> TextV(<<"A">>), created_at |-> TimeV(3)] >>,
    logs |-> << >>,
    archive |-> << >>,
    active_users |-> << [id |-> IntV(1)] >> ]

(***************************************************************************)
(* The Record Store: how PostgreSQL answers the statements of the handlers.*)
(* A result is [ok, rows]; ok = FALSE is a statement the store rejects.    *)
(***************************************************************************)
Range(f) == {f[i] : i \in DOMAIN f}

Ok(rows) == [ok |-> TRUE, rows |-> rows]
Rejected == [ok |-> FALSE, rows |-> <<>>]

\* String.prototype.toLowerCase / toUpperCase on the names the requests carry,
\* and PostgreSQL's folding of an unquoted identifier.
toLowerCase(name) ==
  CASE name = "OTPS" -> "otps"
    [] name = "users; DROP TABLE x" -> "users; drop table x"
    [] name = "DESC" -> "desc"
    [] name = "ASC" -> "asc"
    [] OTHER -> name

toUpperCase(name) ==
  CASE name = "desc" -> "DESC"
    [] name = "asc" -> "ASC"
    [] name = "up" -> "UP"
    [] OTHER -> name

\* Relations reachable through the search path (schema public).
PublicRelations == {r.table_name : r \in {x \in Range(InfoTables) : x.table_schema = "public"}}

\* The relation an interpolated, unquoted name denotes: none when the text is
\* not the name of a relation of the search path.
RelationOf(name) ==
  IF toLowerCase(name) \in PublicRelations THEN <<toLowerCase(name)>> ELSE <<>>

ColumnsOfRelation(rel) ==
  {c.column_name : c \in {x \in Range(InfoColumns) :
                             x.table_schema = "public" /\ x.table_name = rel}}

TypeOfColumn(rel, col) ==
  (CHOOSE c \in Range(InfoColumns) :
     c.table_schema = "public" /\ c.table_name = rel /\ c.column_name = col).data_type

IsDigits(str) == str # <<>> /\ \A i \in 1..Len(str) : \E d \in 1..10 : Digits[d] = str[i]

RECURSIVE ToInt(_)
ToInt(str) ==
  IF str = <<>> THEN 0
  ELSE 10 * ToInt(SubSeq(str, 1, Len(str) - 1))
         + ((CHOOSE d \in 1..10 : Digits[d] = str[Len(str)]) - 1)

\* A bound parameter converted to the type of the column it is compared
\* with; <<>> when the store rejects the conversion.
Coerce(param, type) ==
  IF type = "integer"
    THEN CASE param.t = "int" -> <<param>>
           [] param.t = "text" /\ IsDigits(param.s) -> <<IntV(ToInt(param.s))>>
           [] OTHER -> <<>>
  ELSE IF type \in {"text", "character varying", "character"}
    THEN CASE param.t = "null" -> <<>>
           [] OTHER -> <<CastText(param)>>
  ELSE <<>>

\* SELECT * FROM <name> WHERE <col> = $1
SelectWhereEq(rows, name, col, param) ==
  LET rel == RelationOf(name) IN
  IF rel = <<>> THEN Rejected
  ELSE IF col \notin ColumnsOfRelation(rel[1]) THEN Rejected
  ELSE LET p == Coerce(param, TypeOfColumn(rel[1], col)) IN
       IF p = <<>> THEN Rejected
       ELSE Ok(SelectSeq(rows[rel[1]], LAMBDA r : r[col] = p[1]))

\* SELECT table_name FROM information_schema.tables
\*  WHERE table_schema = 'public' AND table_name = $1
SelectTableCheck(table) ==
  SelectSeq(InfoTables, LAMBDA r : r.table_schema = "public" /\ r.table_name = table)

RECURSIVE ByOrdinal(_, _)
ByOrdinal(rows, pos) ==
  IF pos > Len(InfoColumns) THEN <<>>
  ELSE SelectSeq(rows, LAMBDA r : r.ordinal_position = pos) \o ByOrdinal(rows, pos + 1)

\* SELECT column_name, data_type FROM information_schema.columns
\*  WHERE table_name = $1 ORDER BY ordinal_position
SelectColumns(table) ==
  ByOrdinal(SelectSeq(InfoColumns, LAMBDA r : r.table_name = table), 1)

\* One result row of the foreign-key query for a joined (tc, kcu, ccu) triple.
EdgeRow(tc, kcu, ccu) ==
  [from_table |-> tc.table_name, from_column |-> kcu.column_name,
   to_table |-> ccu.table_name, to_column |-> ccu.column_name,
   constraint_name |-> tc.constraint_name]

\* FROM table_constraints tc
\*   JOIN key_column_usage kcu ON tc.constraint_name = kcu.constraint_name
\*                            AND tc.table_schema = kcu.table_schema
\*   JOIN constraint_column_usage ccu ON ccu.constraint_name = tc.constraint_name
\*                            AND ccu.table_schema = tc.table_schema
\*  WHERE tc.constraint_type = 'FOREIGN KEY' AND tc.table_schema = 'public'
ForeignKeyJoin ==
  { EdgeRow(x[1], x[2], x[3]) :
      x \in { y \in Range(InfoTableConstraints) \X Range(InfoKeyColumnUsage)
                      \X Range(InfoConstraintColumnUsage) :
                /\ y[1].constraint_name = y[2].constraint_name
                /\ y[1].table_schema = y[2].table_schema
                /\ y[3].constraint_name = y[1].constraint_name
                /\ y[3].table_schema = y[1].table_schema
                /\ y[1].constraint_type = "FOREIGN KEY"
                /\ y[1].table_schema = "public" } }

\* ... AND (tc.table_name = $1 OR ccu.table_name = $1)
EdgesForTable(table) ==
  {e \in ForeignKeyJoin : e.from_table = table \/ e.to_table = table}

\* The orders in which a statement without ORDER BY may return a set of rows.
Orderings(S) ==
  {f \in [1..Cardinality(S) -> S] : \A i, j \in 1..Cardinality(S) : i # j => f[i] # f[j]}

(***************************************************************************)
(* listRows: the pure parts of the handler and its two data statements.    *)
(***************************************************************************)
TextLikeTypes == {"character varying", "text", "character"}

\* columnsResult.rows.map(row => row.column_name)
ColumnNames(columnsResult) == [i \in 1..Len(columnsResult) |-> columnsResult[i].column_name]

\* columns.includes(sortBy) ? sortBy : columns[0]
ValidSortBy(columns, sortBy) ==
  IF sortBy \in Range(columns) THEN sortBy
  ELSE IF columns = <<>> THEN "undefined" ELSE columns[1]

\* DESC only for the spelling DESC itself.
ValidSortOrderExact(sortOrder) == IF sortOrder = "DESC" THEN "DESC" ELSE "ASC"

\* sortOrder.toUpperCase() === 'DESC' ? 'DESC' : 'ASC'
ValidSortOrder(sortOrder) == IF toUpperCase(sortOrder) = "DESC" THEN "DESC" ELSE "ASC"

\* The columns that get a "<col>::text ILIKE $n" term, in column order.
SearchConditions(columnsResult, search) ==
  IF search = <<>> THEN <<>>
  ELSE ColumnNames(SelectSeq(columnsResult, LAMBDA row : row.data_type \in TextLikeTypes))

\* searchValue = `%${search}%`, pushed once per term.
SearchParams(columnsResult, search) ==
  [i \in 1..Len(SearchConditions(columnsResult, search)) |-> <<"%">> \o search \o <<"%">>]

\* WHERE c1::text ILIKE $1 OR c2::text ILIKE $2 ... evaluated on one row.
RowMatches(r, conds, params) ==
  \E i \in 1..Len(conds) :
    LET v == CastText(r[conds[i]]) IN v.t # "null" /\ Like(v.s, params[i])

Filtered(rows, conds, params) ==
  IF conds = <<>> THEN rows ELSE SelectSeq(rows, LAMBDA r : RowMatches(r, conds, params))

\* SELECT COUNT(*) FROM ${table} ${searchCondition}
CountQuery(rows, table, conds, params) ==
  LET rel == RelationOf(table) IN
  IF rel = <<>> THEN Rejected
  ELSE IF ~ (Range(conds) \subseteq ColumnsOfRelation(rel[1])) THEN Rejected
  ELSE Ok(Filtered(rows[rel[1]], conds, params))

CharOrder == <<"%", "0", "1", "2", "3", "4", "5", "6", "7", "8", "9", "A", "B", "_", "a", "b">>

CharRank(c) == CHOOSE i \in 1..Len(CharOrder) : CharOrder[i] = c

RECURSIVE LexLE(_, _)
LexLE(x, y) ==
  IF x = <<>> THEN TRUE
  ELSE IF y = <<>> THEN FALSE
  ELSE IF Head(x) = Head(y) THEN LexLE(Tail(x), Tail(y))
  ELSE CharRank(Head(x)) < CharRank(Head(y))

\* x sorts no later than y in ascending order (NULLs last).
ValLE(x, y) ==
  \/ y.t = "null"
  \/ x.t # "null" /\ (IF x.t = "text" THEN LexLE(x.s, y.s) ELSE x.n <= y.n)

\* The orders ORDER BY <col> <dir> allows for a sequence of rows.
SortedOrderings(rows, col, dir) ==
  { [i \in 1..Len(rows) |-> rows[f[i]]] :
      f \in { g \in Orderings(1..Len(rows)) :
                \A i, j \in 1..Len(rows) :
                  i < j => IF dir = "DESC" THEN ValLE(rows[g[j]][col], rows[g[i]][col])
                                           ELSE ValLE(rows[g[i]][col], rows[g[j]][col]) } }

Min(a, b) == IF a < b THEN a ELSE b

\* LIMIT lim OFFSET off
LimitOffset(rows, lim, off) == SubSeq(rows, off + 1, Min(off + lim, Len(rows)))

\* SELECT * FROM ${table} ${searchCondition} ORDER BY ${validSortBy}
\*   ${validSortOrder} LIMIT $n+1 OFFSET $n+2 : the set of possible results.
DataQuery(rows, table, conds, params, sortCol, dir, lim, off) ==
  LET rel == RelationOf(table) IN
  IF rel = <<>> THEN {Rejected}
  ELSE IF ~ ((Range(conds) \cup {sortCol}) \subseteq ColumnsOfRelation(rel[1])) THEN {Rejected}
  ELSE IF lim < 0 \/ off < 0 THEN {Rejected}
  ELSE { Ok(LimitOffset(o, lim, off)) :
           o \in SortedOrderings(Filtered(rows[rel[1]], conds, params), sortCol, dir) }

\* Math.floor in place of Math.ceil.
TotalPagesFloor(totalCount, limit) ==
  IF limit = 0 THEN <<>> ELSE <<totalCount \div limit>>

\* Math.ceil(totalCount / limit) as JSON carries it: <<n>>, or <<>> (null)
\* when the quotient is not finite.
TotalPages(totalCount, limit) ==
  IF limit = 0 THEN <<>>
  ELSE IF limit > 0
    THEN <<(totalCount \div limit) + (IF totalCount % limit = 0 THEN 0 ELSE 1)>>
    ELSE <<0 - (totalCount \div (0 - limit))>>

(***************************************************************************)
(* listTables and listForeignKeys: their catalog statements.               *)
(***************************************************************************)
IdentOrder ==
  << "active_users", "age", "approver_id", "archive", "code", "created_at", "email",
     "employees", "id", "logs", "manager_id", "name", "note", "orders", "origin_id", "otps",
     "parent_id", "tag", "tag_code", "tag_id", "tags", "user_id", "users" >>

IdentRank(name) == CHOOSE i \in 1..Len(IdentOrder) : IdentOrder[i] = name

\* (SELECT COUNT(*) FROM information_schema.columns
\*   WHERE table_name = t.table_name AND table_schema = 'public')
ColumnCount(table) == Cardinality(ColumnsOfRelation(table))

\* SELECT table_name, column_count FROM information_schema.tables t
\*  WHERE table_schema = 'public' AND table_type = 'BASE TABLE' ORDER BY table_name
TablesQuery ==
  LET base == {r.table_name : r \in {x \in Range(InfoTables) :
                 x.table_schema = "public" /\ x.table_type = "BASE TABLE"}}
      named == SelectSeq(IdentOrder, LAMBDA n : n \in base)
  IN [i \in 1..Len(named) |-> [table_name |-> named[i], column_count |-> ColumnCount(named[i])]]

\* x does not come after y under ORDER BY tc.table_name, kcu.column_name
EdgeLE(x, y) ==
  \/ IdentRank(x.from_table) < IdentRank(y.from_table)
  \/ /\ x.from_table = y.from_table
     /\ IdentRank(x.from_column) <= IdentRank(y.from_column)

\* The orders of the rows of S that respect the ORDER BY; rows with equal
\* keys come in any order.
RECURSIVE EdgeOrderings(_)
EdgeOrderings(S) ==
  IF S = {} THEN {<<>>}
  ELSE UNION { {<<x>> \o o : o \in EdgeOrderings(S \ {x})} :
                 x \in {m \in S : \A y \in S : EdgeLE(m, y)} }

\* ... ORDER BY tc.table_name, kcu.column_name : the possible results.
ForeignKeysQuery == EdgeOrderings(ForeignKeyJoin)

(***************************************************************************)
(* Requests.                                                               *)
(***************************************************************************)
Ops == {"listTables", "listRows", "listForeignKeys", "resolve"}

\* The session cookie of a request: absent, not verifiable, or a signed token
\* that is still valid (it expires 24h after it was issued).
Tokens == {"none", "invalid", "valid"}

RequestTables == {"users", "orders", "employees", "otps", "OTPS", "users; DROP TABLE x"}

\* resolve is also asked for rows of tags.
ResolveTables == RequestTables \cup {"tags"}

\* The :id path segment.
RequestIds == {<<"0">>, <<"1">>, <<"2">>, <<"9">>, <<"x">>}

SearchChars == {"a", "_", "%"}

RECURSIVE StringsUpTo(_)
StringsUpTo(k) ==
  IF k = 0 THEN {<<>>}
  ELSE StringsUpTo(k - 1) \cup {Append(w, c) : w \in StringsUpTo(k - 1), c \in SearchChars}

\* A numeric query parameter: <<>> when absent, <<k>> when it parses to k.
PageInputs == {<<>>} \cup {<<k>> : k \in -1..MaxPage}
LimitInputs == {<<>>} \cup {<<k>> : k \in 0..MaxLimit}
SortByInputs == {"", "name", "bogus", "note"}
SortOrderInputs == {"", "desc", "up"}

\* Offset counted from page 0 instead of page 1.
OffsetFromZero(page, limit) == page * limit

\* const offset = (page - 1) * limit
Offset(page, limit) == (page - 1) * limit

\* parseInt(searchParams.get(p) || dflt)
ParseIntOr(raw, dflt) == IF raw = <<>> THEN dflt ELSE raw[1]

\* searchParams.get(p) || dflt
StringOr(raw, dflt) == IF raw = "" THEN dflt ELSE raw

NoParams ==
  [table |-> "", id |-> <<>>, page |-> 0, limit |-> 0, search |-> <<>>,
   sortBy |-> "", sortOrder |-> "", offset |-> 0]

\* jwtVerify succeeds
verifySession(tk) == tk = "valid"

(***************************************************************************)
(* State.                                                                  *)
(***************************************************************************)
VARIABLES
  db,             \* Record Store: table name -> sequence of rows
  now,            \* the store's clock NOW(), in days (the requests of a run fall on one day)
  pc,             \* where the request in progress stands
  op,             \* the operation it asks for
  token,          \* its session cookie
  params,         \* its parsed parameters
  log,            \* statements passed to db.query by this request, in order
  seen,           \* table and column names catalog statements returned to it
  tablesResult,   \* listTables: tablesResult.rows
  columnsResult,  \* listRows: columnsResult.rows
  totalCount,     \* listRows: totalCount
  mainRecord,     \* resolve: mainRecord.rows
  relationships,  \* resolve: relationshipsQuery.rows
  relIdx,         \* resolve: position of the for-of loop in relationships
  relatedRecords, \* resolve: relatedRecords, entries in key insertion order
  resp            \* the response sent

\* lib/db.ts: the module-level pool of the process.
VARIABLES
  env,            \* process.env: which of DATABASE_URL and PG_HOST are set
  dbModule,       \* which of the two versions of lib/db.ts the process loaded
  pool,           \* let pool: <<>> for null, else <<k>> for the k-th Pool constructed
  pools,          \* the options of every Pool constructed so far, in order
  calls           \* the getDb() calls so far: who called and what the call gave

poolVars == << env, dbModule, pool, pools, calls >>

\* Requests served at the same time as the one in progress.
VARIABLES
  deletes         \* cleanup DELETEs of other requests committed since it began

raceVars == << deletes >>

\* app/api/users/route.ts: one GET /api/users request.
VARIABLES
  usersColumns,     \* data_type of the columns of the users table, by ordinal_position
  usersRequest,     \* the request: its session and its page, limit and search parameters
  usersPc,          \* where the request stands
  searchConditions, \* the terms joined into searchCondition: column and placeholder of each
  searchParams_arr, \* searchParams_arr
  countQuery,       \* the COUNT statement as issued: placeholders of its text, bound parameters
  dataQuery,        \* the page statement as issued, likewise
  usersResp         \* the response sent

usersVars ==
  << usersColumns, usersRequest, usersPc, searchConditions, searchParams_arr, countQuery,
     dataQuery, usersResp >>

\* app/database/page.tsx: the state of DatabaseExplorerPage and its fetches.
VARIABLES
  selectedTable,        \* selectedTable
  searchQuery,          \* searchQuery
  pagination,           \* pagination
  tableData,            \* tableData: <<>> for [], else the rows of one listing response
  pageColumns,          \* columns: <<>> for [], else the table whose columns they are
  loading,              \* loading
  view,                 \* view
  selectedRow,          \* selectedRow: <<>> for null
  relationshipData,     \* relationshipData: <<>> for null
  loadingRelationships, \* loadingRelationships
  listingFetches,       \* fetchTableData calls awaiting their response
  relationshipFetches,  \* handleRowClick calls awaiting their response
  issued,               \* number of fetches issued so far
  lastListing           \* the fetchTableData call issued last, and how it was answered

pageVars ==
  << selectedTable, searchQuery, pagination, tableData, pageColumns, loading, view, selectedRow,
     relationshipData, loadingRelationships, listingFetches, relationshipFetches, issued,
     lastListing >>

\* The state of the parts of the program outside the explorer API handlers.
others == << poolVars, raceVars, usersVars, pageVars >>

\* The state of the explorer API handlers and of the Record Store.
apiVars ==
  << db, now, pc, op, token, params, log, seen, tablesResult, columnsResult, totalCount,
     mainRecord, relationships, relIdx, relatedRecords, resp >>

vars ==
  << db, now, pc, op, token, params, log, seen, tablesResult, columnsResult, totalCount,
     mainRecord, relationships, relIdx, relatedRecords, resp, others >>

locals ==
  << tablesResult, columnsResult, totalCount, mainRecord, relationships, relIdx,
     relatedRecords >>

NoSeen == [tables |-> {}, columns |-> {}]
NoResp == [status |-> 0, kind |-> "none"]

\* One db.query call: the identifiers interpolated into its text, its bound
\* parameters, whether the store could be reached (up), and what the catalog
\* statements of the request had returned when it was issued.  where lists the
\* columns of the ILIKE terms of its WHERE predicate in order, orderBy is the
\* ORDER BY column and direction interpolated into the text, <<>> without one.
Stmt(kind, tables, columns, patterns, nums, param, up) ==
  [kind |-> kind, tables |-> tables, columns |-> columns, patterns |-> patterns,
   nums |-> nums, param |-> param, up |-> up, where |-> <<>>, orderBy |-> <<>>,
   seenTables |-> seen.tables, seenColumns |-> seen.columns]

ErrorResp(status, error) == [status |-> status, kind |-> "error", error |-> error]

\* The explorer API with no request in progress.
ApiIdle ==
  /\ db = InitialRows
  /\ now = Today
  /\ pc = "idle"
  /\ op = "none"
  /\ token = "none"
  /\ params = NoParams
  /\ log = <<>>
  /\ seen = NoSeen
  /\ tablesResult = <<>>
  /\ columnsResult = <<>>
  /\ totalCount = 0
  /\ mainRecord = <<>>
  /\ relationships = <<>>
  /\ relIdx = 0
  /\ relatedRecords = <<>>
  /\ resp = NoResp

\* The process as configured in production, before the first getDb() call.
PoolUnused ==
  /\ env = [DATABASE_URL |-> TRUE, PG_HOST |-> FALSE]
  /\ dbModule = "lib/db.ts"
  /\ pool = <<>>
  /\ pools = <<>>
  /\ calls = <<>>

\* No other request is being served.
Alone == deletes = 0

NoQuery == [placeholders |-> {}, params |-> <<>>, issued |-> FALSE]

\* No GET /api/users request has arrived.
UsersIdle ==
  /\ usersColumns = <<>>
  /\ usersRequest = [session |-> FALSE, page |-> 0, limit |-> 0, search |-> <<>>]
  /\ usersPc = "idle"
  /\ searchConditions = <<>>
  /\ searchParams_arr = <<>>
  /\ countQuery = NoQuery
  /\ dataQuery = NoQuery
  /\ usersResp = NoResp

\* useState initial values of DatabaseExplorerPage
InitialPagination == [page |-> 1, limit |-> 10, totalCount |-> 0, totalPages |-> 0]

\* The Database Explorer page is not open in any browser.
PageClosed ==
  /\ selectedTable = "users"
  /\ searchQuery = <<>>
  /\ pagination = InitialPagination
  /\ tableData = <<>>
  /\ pageColumns = <<>>
  /\ loading = TRUE
  /\ view = "list"
  /\ selectedRow = <<>>
  /\ relationshipData = <<>>
  /\ loadingRelationships = FALSE
  /\ listingFetches = {}
  /\ relationshipFetches = {}
  /\ issued = 0
  /\ lastListing = <<>>

Init ==
  /\ ApiIdle
  /\ PoolUnused
  /\ Alone
  /\ UsersIdle
  /\ PageClosed

\* A request for one of the four operations arrives.
Receive(o, tk) ==
  /\ pc = "idle"
  /\ pc' = "middleware"
  /\ op' = o
  /\ token' = tk
  /\ UNCHANGED << others, db, now, params, log, seen, locals, resp >>

\* The response has been sent; everything the request built is discarded.
Deliver ==
  /\ pc = "done"
  /\ pc' = "idle"
  /\ op' = "none"
  /\ token' = "none"
  /\ params' = NoParams
  /\ log' = <<>>
  /\ seen' = NoSeen
  /\ tablesResult' = <<>>
  /\ columnsResult' = <<>>
  /\ totalCount' = 0
  /\ mainRecord' = <<>>
  /\ relationships' = <<>>
  /\ relIdx' = 0
  /\ relatedRecords' = <<>>
  /\ resp' = NoResp
  /\ UNCHANGED << others, db, now >>

\* The signed token of the request in progress reaches its expiry time.
Expire ==
  /\ pc = "handler"
  /\ token = "valid"
  /\ token' = "invalid"
  /\ UNCHANGED << others, db, now, pc, op, params, log, seen, locals, resp >>

\* middleware(): every /api path but /api/auth/login is protected.
Middleware ==
  /\ pc = "middleware"
  /\ IF token = "none" \/ ~ verifySession(token)
       THEN /\ pc' = "done"
            /\ resp' = [status |-> 307, kind |-> "redirect", location |-> "/login"]
       ELSE /\ pc' = "handler"
            /\ resp' = resp
  /\ UNCHANGED << others, db, now, op, token, params, log, seen, locals >>

\* getSession() in a handler
getSession == IF token = "none" THEN FALSE ELSE verifySession(token)

Unauthorized ==
  /\ pc' = "done"
  /\ resp' = ErrorResp(401, "Unauthorized")

\* An error response that also carries what had been fetched so far.
FailedWithPartial(msg) ==
  /\ pc' = "done"
  /\ resp' = [status |-> 500, kind |-> "error", error |-> msg,
              relatedRecords |-> relatedRecords]

\* The catch block of a handler.
Failed(msg) ==
  /\ pc' = "done"
  /\ resp' = ErrorResp(500, msg)

(***************************************************************************)
(* GET /api/database/[table] : listRows.                                   *)
(***************************************************************************)
\* Session check, then the query parameters are read.
LR_Session ==
  /\ pc = "handler" /\ op = "listRows"
  /\ IF ~ getSession
       THEN Unauthorized /\ params' = params
       ELSE /\ \E tb \in RequestTables, pg \in PageInputs, lm \in LimitInputs,
                  se \in StringsUpTo(MaxSearchLen), sb \in SortByInputs,
                  so \in SortOrderInputs :
                 params' = [table |-> tb, id |-> <<>>,
                            page |-> ParseIntOr(pg, DefaultPage),
                            limit |-> ParseIntOr(lm, DefaultLimit),
                            search |-> se,
                            sortBy |-> StringOr(sb, "id"),
                            sortOrder |-> StringOr(so, "ASC"),
                            offset |-> Offset(ParseIntOr(pg, DefaultPage),
                                              ParseIntOr(lm, DefaultLimit))]
            /\ pc' = "lr_tableCheck"
            /\ resp' = resp
  /\ UNCHANGED << others, db, now, op, token, log, seen, locals >>

\* Validate table exists.
LR_TableCheck ==
  /\ pc = "lr_tableCheck"
  /\ \E up \in BOOLEAN :
       /\ log' = Append(log, Stmt("tableCheck", {}, {}, <<>>, <<>>, <<TextV(<<>>)>>, up))
       /\ LET tableCheck == SelectTableCheck(params.table) IN
          IF ~ up THEN Failed("Failed to fetch data") /\ seen' = seen
          ELSE /\ seen' = [seen EXCEPT !.tables = @ \cup {r.table_name : r \in Range(tableCheck)}]
               /\ IF Len(tableCheck) = 0
                    THEN pc' = "done" /\ resp' = ErrorResp(404, "Table not found")
                    ELSE /\ pc' = IF toLowerCase(params.table) = "otps"
                                    THEN "lr_cleanup" ELSE "lr_columns"
                         /\ resp' = resp
  /\ UNCHANGED << others, db, now, op, token, params, locals >>

\* A DELETE that removes nothing.
CleanupNothing(rows) == rows

\* DELETE FROM otps WHERE created_at < NOW() - INTERVAL '3 days'
CleanupOtps(rows) ==
  [rows EXCEPT !.otps = SelectSeq(@, LAMBDA r : ~ (r.created_at.n < now - RetentionDays))]

\* The cleanup with its failure passed on to the catch block of the handler.
LR_CleanupSurfaced ==
  /\ pc = "lr_cleanup"
  /\ \E up \in BOOLEAN :
       /\ log' = Append(log, Stmt("cleanup", {}, {}, <<>>, <<>>, <<>>, up))
       /\ db' = IF up THEN CleanupOtps(db) ELSE db
       /\ IF up THEN pc' = "lr_columns" /\ resp' = resp
                ELSE Failed("Failed to fetch data")
  /\ UNCHANGED << others, now, op, token, params, seen, locals >>

\* Clean up old OTPs; a failure is logged and ignored.
LR_Cleanup ==
  /\ pc = "lr_cleanup"
  /\ \E up \in BOOLEAN :
       /\ log' = Append(log, Stmt("cleanup", {}, {}, <<>>, <<>>, <<>>, up))
       /\ db' = IF up THEN CleanupOtps(db) ELSE db
  /\ pc' = "lr_columns"
  /\ UNCHANGED << others, now, op, token, params, seen, locals, resp >>

\* Get column info.
LR_Columns ==
  /\ pc = "lr_columns"
  /\ \E up \in BOOLEAN :
       /\ log' = Append(log, Stmt("columns", {}, {}, <<>>, <<>>, <<TextV(<<>>)>>, up))
       /\ IF ~ up THEN Failed("Failed to fetch data") /\ UNCHANGED << seen, columnsResult >>
          ELSE /\ columnsResult' = SelectColumns(params.table)
               /\ seen' = [seen EXCEPT !.columns =
                             @ \cup {r.column_name : r \in Range(SelectColumns(params.table))}]
               /\ pc' = "lr_count"
               /\ resp' = resp
  /\ UNCHANGED << others, db, now, op, token, params, tablesResult, totalCount, mainRecord,
                  relationships, relIdx, relatedRecords >>

\* Get total count.
LR_Count ==
  /\ pc = "lr_count"
  /\ LET conds == SearchConditions(columnsResult, params.search)
         countParams == SearchParams(columnsResult, params.search)
         countResult == CountQuery(db, params.table, conds, countParams)
     IN \E up \in BOOLEAN :
          /\ log' = Append(log,
                 [Stmt("count", {params.table}, Range(conds), countParams, <<>>, <<>>, up)
                    EXCEPT !.where = conds])
          /\ IF ~ up \/ ~ countResult.ok
               THEN Failed("Failed to fetch data") /\ totalCount' = totalCount
               ELSE /\ totalCount' = Len(countResult.rows)
                    /\ pc' = "lr_data"
                    /\ resp' = resp
  /\ UNCHANGED << others, db, now, op, token, params, seen, tablesResult, columnsResult,
                  mainRecord, relationships, relIdx, relatedRecords >>

\* The page statement without the WHERE predicate of the count statement.
LR_DataUnfiltered ==
  /\ pc = "lr_data"
  /\ LET columns == ColumnNames(columnsResult)
         validSortBy == ValidSortBy(columns, params.sortBy)
         validSortOrder == ValidSortOrder(params.sortOrder)
     IN \E up \in BOOLEAN :
        \E result \in DataQuery(db, params.table, <<>>, <<>>, validSortBy,
                                validSortOrder, params.limit, params.offset) :
          /\ log' = Append(log,
                 [Stmt("data", {params.table}, {validSortBy},
                       <<>>, <<params.limit, params.offset>>, <<>>, up)
                    EXCEPT !.orderBy = <<validSortBy, validSortOrder>>])
          /\ IF ~ up \/ ~ result.ok
               THEN Failed("Failed to fetch data")
               ELSE /\ pc' = "done"
                    /\ resp' = [status |-> 200, kind |-> "rows",
                                data |-> result.rows,
                                columns |-> columns,
                                pagination |->
                                  [page |-> params.page, limit |-> params.limit,
                                   totalCount |-> totalCount,
                                   totalPages |-> TotalPages(totalCount, params.limit)]]
  /\ UNCHANGED << others, db, now, op, token, params, seen, locals >>

\* Get paginated results and answer.
LR_Data ==
  /\ pc = "lr_data"
  /\ LET conds == SearchConditions(columnsResult, params.search)
         dataParams == SearchParams(columnsResult, params.search)
         columns == ColumnNames(columnsResult)
         validSortBy == ValidSortBy(columns, params.sortBy)
         validSortOrder == ValidSortOrder(params.sortOrder)
     IN \E up \in BOOLEAN :
        \E result \in DataQuery(db, params.table, conds, dataParams, validSortBy,
                                validSortOrder, params.limit, params.offset) :
          /\ log' = Append(log,
                 [Stmt("data", {params.table}, Range(conds) \cup {validSortBy},
                       dataParams, <<params.limit, params.offset>>, <<>>, up)
                    EXCEPT !.where = conds, !.orderBy = <<validSortBy, validSortOrder>>])
          /\ IF ~ up \/ ~ result.ok
               THEN Failed("Failed to fetch data")
               ELSE /\ pc' = "done"
                    /\ resp' = [status |-> 200, kind |-> "rows",
                                data |-> result.rows,
                                columns |-> columns,
                                pagination |->
                                  [page |-> params.page, limit |-> params.limit,
                                   totalCount |-> totalCount,
                                   totalPages |-> TotalPages(totalCount, params.limit)]]
  /\ UNCHANGED << others, db, now, op, token, params, seen, locals >>

(***************************************************************************)
(* GET /api/database/[table]/[id]/relationships : resolve.                 *)
(***************************************************************************)
\* Session check, then the path parameters are read.
RS_Session ==
  /\ pc = "handler" /\ op = "resolve"
  /\ IF ~ getSession
       THEN Unauthorized /\ params' = params
       ELSE /\ \E tb \in ResolveTables, rid \in RequestIds :
                 /\ params' = [NoParams EXCEPT !.table = tb, !.id = rid]
                 /\ pc' = IF toLowerCase(tb) = "otps" THEN "rs_cleanup" ELSE "rs_main"
            /\ resp' = resp
  /\ UNCHANGED << others, db, now, op, token, log, seen, locals >>

\* Clean up old OTPs; a failure is logged and ignored.
RS_Cleanup ==
  /\ pc = "rs_cleanup"
  /\ \E up \in BOOLEAN :
       /\ log' = Append(log, Stmt("cleanup", {}, {}, <<>>, <<>>, <<>>, up))
       /\ db' = IF up THEN CleanupOtps(db) ELSE db
  /\ pc' = "rs_main"
  /\ UNCHANGED << others, now, op, token, params, seen, locals, resp >>

\* Get the main record: SELECT * FROM ${table} WHERE id = $1
RS_Main ==
  /\ pc = "rs_main"
  /\ \E up \in BOOLEAN :
       /\ log' = Append(log, Stmt("main", {params.table}, {}, <<>>, <<>>, <<TextV(params.id)>>, up))
       /\ LET result == SelectWhereEq(db, params.table, "id", TextV(params.id)) IN
          IF ~ up \/ ~ result.ok
            THEN Failed("Failed to fetch relationships") /\ mainRecord' = mainRecord
            ELSE /\ mainRecord' = result.rows
                 /\ IF Len(result.rows) = 0
                      THEN pc' = "done" /\ resp' = ErrorResp(404, "Record not found")
                      ELSE pc' = "rs_edges" /\ resp' = resp
  /\ UNCHANGED << others, db, now, op, token, params, seen, tablesResult, columnsResult,
                  totalCount, relationships, relIdx, relatedRecords >>

\* Get foreign key relationships for this table.
RS_Edges ==
  /\ pc = "rs_edges"
  /\ \E up \in BOOLEAN :
       /\ log' = Append(log, Stmt("edges", {}, {}, <<>>, <<>>, <<TextV(<<>>)>>, up))
       /\ IF ~ up
            THEN Failed("Failed to fetch relationships") /\ UNCHANGED << seen, relationships, relIdx >>
            ELSE /\ \E rows \in Orderings(EdgesForTable(params.table)) : relationships' = rows
                 /\ seen' = [tables |-> seen.tables
                               \cup {e.from_table : e \in EdgesForTable(params.table)}
                               \cup {e.to_table : e \in EdgesForTable(params.table)},
                             columns |-> seen.columns
                               \cup {e.from_column : e \in EdgesForTable(params.table)}
                               \cup {e.to_column : e \in EdgesForTable(params.table)}]
                 /\ relIdx' = 1
                 /\ pc' = "rs_loop"
                 /\ resp' = resp
  /\ UNCHANGED << others, db, now, op, token, params, tablesResult, columnsResult, totalCount,
                  mainRecord, relatedRecords >>

\* mainRecord.rows[0][column]: undefined (falsy, like null) for a missing key.
FieldOf(row, column) == IF column \in DOMAIN row THEN row[column] ELSE NullV

\* Rows already listed for t are not listed again.
PushRelatedOnce(related, t, rows) ==
  IF \E i \in 1..Len(related) : related[i].table = t
    THEN [i \in 1..Len(related) |->
            IF related[i].table = t
              THEN [table |-> t,
                    rows |-> related[i].rows
                               \o SelectSeq(rows, LAMBDA r : r \notin Range(related[i].rows))]
              ELSE related[i]]
    ELSE Append(related, [table |-> t, rows |-> rows])

\* if (!relatedRecords[t]) relatedRecords[t] = []; relatedRecords[t].push(...rows)
PushRelated(related, t, rows) ==
  IF \E i \in 1..Len(related) : related[i].table = t
    THEN [i \in 1..Len(related) |->
            IF related[i].table = t
              THEN [table |-> t, rows |-> related[i].rows \o rows]
              ELSE related[i]]
    ELSE Append(related, [table |-> t, rows |-> rows])

\* The branch one iteration of the loop takes for the edge rel.
EdgeBranch(rel, table, row) ==
  IF rel.from_table = table
    THEN IF Truthy(FieldOf(row, rel.from_column)) THEN "outbound" ELSE "skip"
    ELSE IF rel.to_table = table THEN "inbound" ELSE "none"

\* One iteration of: for (const rel of relationships)
RS_Loop ==
  /\ pc = "rs_loop" /\ relIdx <= Len(relationships)
  /\ LET rel == relationships[relIdx]
         branch == EdgeBranch(rel, params.table, mainRecord[1])
         foreignKeyValue == FieldOf(mainRecord[1], rel.from_column)
         relatedData ==
           IF branch = "outbound"
             THEN SelectWhereEq(db, rel.to_table, rel.to_column, foreignKeyValue)
             ELSE SelectWhereEq(db, rel.from_table, rel.from_column, TextV(params.id))
         target == IF branch = "outbound" THEN rel.to_table ELSE rel.from_table
         column == IF branch = "outbound" THEN rel.to_column ELSE rel.from_column
         value == IF branch = "outbound" THEN foreignKeyValue ELSE TextV(params.id)
     IN IF branch \in {"skip", "none"}
          THEN /\ relIdx' = relIdx + 1
               /\ UNCHANGED << pc, log, relatedRecords, resp >>
          ELSE \E up \in BOOLEAN :
                 /\ log' = Append(log, Stmt("related", {target}, {column}, <<>>,
                                            <<relIdx>>, <<value>>, up))
                 /\ IF ~ up \/ ~ relatedData.ok
                      THEN Failed("Failed to fetch relationships")
                           /\ UNCHANGED << relIdx, relatedRecords >>
                      ELSE /\ relatedRecords' =
                                PushRelated(relatedRecords, target, relatedData.rows)
                           /\ relIdx' = relIdx + 1
                           /\ UNCHANGED << pc, resp >>
  /\ UNCHANGED << others, db, now, op, token, params, seen, tablesResult, columnsResult,
                  totalCount, mainRecord, relationships >>

\* Only the edges whose related rows were fetched.
EdgeListTraversedOnly(rels) ==
  LET kept == SelectSeq([i \in 1..Len(rels) |-> [idx |-> i, rel |-> rels[i]]],
                        LAMBDA x : \E k \in 1..Len(log) :
                                     log[k].kind = "related" /\ log[k].nums = <<x.idx>>)
  IN [i \in 1..Len(kept) |->
        [from |-> kept[i].rel.from_table, to |-> kept[i].rel.to_table,
         fromColumn |-> kept[i].rel.from_column, toColumn |-> kept[i].rel.to_column]]

\* relationships.map(r => ({from, to, fromColumn, toColumn}))
EdgeList(rels) ==
  [i \in 1..Len(rels) |->
     [from |-> rels[i].from_table, to |-> rels[i].to_table,
      fromColumn |-> rels[i].from_column, toColumn |-> rels[i].to_column]]

\* The loop is over: answer with the graph.
RS_Respond ==
  /\ pc = "rs_loop" /\ relIdx > Len(relationships)
  /\ pc' = "done"
  /\ resp' = [status |-> 200, kind |-> "graph",
              mainRecord |-> [table |-> params.table, data |-> mainRecord[1]],
              relatedRecords |-> relatedRecords,
              relationships |-> EdgeList(relationships)]
  /\ UNCHANGED << others, db, now, op, token, params, log, seen, locals >>

(***************************************************************************)
(* GET /api/database/tables : listTables.                                  *)
(***************************************************************************)
LT_Session ==
  /\ pc = "handler" /\ op = "listTables"
  /\ IF ~ getSession THEN Unauthorized ELSE pc' = "lt_tables" /\ resp' = resp
  /\ UNCHANGED << others, db, now, op, token, params, log, seen, locals >>

\* Get all tables in the public schema.
LT_Tables ==
  /\ pc = "lt_tables"
  /\ \E up \in BOOLEAN :
       /\ log' = Append(log, Stmt("tables", {}, {}, <<>>, <<>>, <<>>, up))
       /\ IF ~ up THEN Failed("Failed to fetch tables") /\ UNCHANGED << seen, tablesResult >>
          ELSE /\ tablesResult' = TablesQuery
               /\ seen' = [seen EXCEPT !.tables = @ \cup {r.table_name : r \in Range(TablesQuery)}]
               /\ pc' = "lt_counts"
               /\ resp' = resp
  /\ UNCHANGED << others, db, now, op, token, params, columnsResult, totalCount, mainRecord,
                  relationships, relIdx, relatedRecords >>

\* The handler without row counts: the rows of the tables statement are the
\* answer.
LT_TablesOnly ==
  /\ pc = "lt_tables"
  /\ \E up \in BOOLEAN :
       /\ log' = Append(log, Stmt("tables", {}, {}, <<>>, <<>>, <<>>, up))
       /\ IF ~ up THEN Failed("Failed to fetch tables") /\ seen' = seen
          ELSE /\ seen' = [seen EXCEPT !.tables = @ \cup {r.table_name : r \in Range(TablesQuery)}]
               /\ resp' = [status |-> 200, kind |-> "tables", tables |-> TablesQuery]
               /\ pc' = "done"
  /\ UNCHANGED << others, db, now, op, token, params, locals >>

\* SELECT COUNT(*) as row_count FROM "${table.table_name}", 0 when it fails.
RowCount(rows, name, failing) ==
  IF name \in failing \/ name \notin PublicRelations THEN 0 ELSE Len(rows[name])

\* Row count of every table (Promise.all), then the empty tables are dropped.
LT_Counts ==
  /\ pc = "lt_counts"
  /\ \E failing \in SUBSET {tablesResult[i].table_name : i \in 1..Len(tablesResult)} :
       LET tablesWithCounts ==
             [i \in 1..Len(tablesResult) |->
                [table_name |-> tablesResult[i].table_name,
                 column_count |-> tablesResult[i].column_count,
                 row_count |-> RowCount(db, tablesResult[i].table_name, failing)]]
           nonEmptyTables == SelectSeq(tablesWithCounts, LAMBDA t : t.row_count > 0)
       IN /\ log' = log \o [i \in 1..Len(tablesResult) |->
                               Stmt("rowCount", {tablesResult[i].table_name}, {}, <<>>,
                                    <<>>, <<>>, tablesResult[i].table_name \notin failing)]
          /\ resp' = [status |-> 200, kind |-> "tables", tables |-> nonEmptyTables]
  /\ pc' = "done"
  /\ UNCHANGED << others, db, now, op, token, params, seen, locals >>

(***************************************************************************)
(* GET /api/database/relationships : listForeignKeys.                      *)
(***************************************************************************)
LF_Session ==
  /\ pc = "handler" /\ op = "listForeignKeys"
  /\ IF ~ getSession THEN Unauthorized ELSE pc' = "lf_query" /\ resp' = resp
  /\ UNCHANGED << others, db, now, op, token, params, log, seen, locals >>

\* Get foreign key relationships.
LF_Query ==
  /\ pc = "lf_query"
  /\ \E up \in BOOLEAN :
       /\ log' = Append(log, Stmt("foreignKeys", {}, {}, <<>>, <<>>, <<>>, up))
       /\ IF ~ up THEN Failed("Failed to fetch relationships")
          ELSE /\ \E rows \in ForeignKeysQuery :
                    resp' = [status |-> 200, kind |-> "edges", relationships |-> rows]
               /\ pc' = "done"
  /\ UNCHANGED << others, db, now, op, token, params, seen, locals >>

(***************************************************************************)
(* lib/db.ts : getDb() and the module-level pool.                          *)
(***************************************************************************)
MaxCalls == 3

\* The route handlers that call getDb().
Callers == Ops \cup {"users"}

DbModules == {"lib/db.ts", "part_000"}

\* createPool() of lib/db.ts: <<options>> of the Pool it constructs, <<>> when
\* it throws for lack of configuration.
createPool(e) ==
  IF e.DATABASE_URL
    THEN << [via |-> "connectionString", max |-> 20, idleTimeoutMillis |-> 30000,
             connectionTimeoutMillis |-> 2000] >>
  ELSE IF ~ e.PG_HOST THEN <<>>
  ELSE << [via |-> "host", max |-> 20, idleTimeoutMillis |-> 30000,
           connectionTimeoutMillis |-> 2000] >>

\* The version without createPool: new Pool({host: process.env.PG_HOST, ...})
\* whatever the environment holds.
newPool(e) ==
  << [via |-> "host", max |-> 20, idleTimeoutMillis |-> 30000,
      connectionTimeoutMillis |-> 2000] >>

\* A getDb() that constructs a Pool on every call.
GetDbFresh(caller) ==
  /\ Len(calls) < MaxCalls
  /\ LET made == IF dbModule = "lib/db.ts" THEN createPool(env) ELSE newPool(env) IN
     IF made = <<>>
       THEN /\ calls' = Append(calls, [by |-> caller, threw |-> TRUE, got |-> <<>>])
            /\ UNCHANGED << pool, pools >>
       ELSE /\ pools' = Append(pools, made[1])
            /\ pool' = <<Len(pools) + 1>>
            /\ calls' = Append(calls, [by |-> caller, threw |-> FALSE,
                                       got |-> <<Len(pools) + 1>>])
  /\ UNCHANGED << apiVars, raceVars, usersVars, pageVars, env, dbModule >>

\* getDb(): if (!pool) pool = createPool(); return pool
GetDb(caller) ==
  /\ Len(calls) < MaxCalls
  /\ IF pool # <<>>
       THEN /\ calls' = Append(calls, [by |-> caller, threw |-> FALSE, got |-> pool])
            /\ UNCHANGED << pool, pools >>
       ELSE LET made == IF dbModule = "lib/db.ts" THEN createPool(env) ELSE newPool(env) IN
            IF made = <<>>
              THEN /\ calls' = Append(calls, [by |-> caller, threw |-> TRUE, got |-> <<>>])
                   /\ UNCHANGED << pool, pools >>
              ELSE /\ pools' = Append(pools, made[1])
                   /\ pool' = <<Len(pools) + 1>>
                   /\ calls' = Append(calls, [by |-> caller, threw |-> FALSE,
                                              got |-> <<Len(pools) + 1>>])
  /\ UNCHANGED << apiVars, raceVars, usersVars, pageVars, env, dbModule >>

\* A process starts with some environment and one of the two modules.
InitPool ==
  /\ ApiIdle
  /\ env \in [DATABASE_URL : BOOLEAN, PG_HOST : BOOLEAN]
  /\ dbModule \in DbModules
  /\ pool = <<>>
  /\ pools = <<>>
  /\ calls = <<>>
  /\ Alone
  /\ UsersIdle
  /\ PageClosed

NextPool == \E caller \in Callers : GetDb(caller)

SpecPool == InitPool /\ [][NextPool]_vars

(***************************************************************************)
(* A listRows or resolve request on otps served while other requests on    *)
(* otps run their cleanup.                                                 *)
(***************************************************************************)
MaxDeletes == 2

\* The cleanup DELETE of another request commits (part_001:39-49 or
\* route.ts:103-114 executed for that request).
OtherCleanup ==
  /\ pc # "done"
  /\ deletes < MaxDeletes
  /\ deletes' = deletes + 1
  /\ db' = CleanupOtps(db)
  /\ UNCHANGED << now, pc, op, token, params, log, seen, locals, resp, poolVars, usersVars,
                  pageVars >>

\* An authenticated request on otps has parsed its parameters.
InitRace ==
  /\ PoolUnused
  /\ Alone
  /\ UsersIdle
  /\ PageClosed
  /\ db = InitialRows
  /\ now = Today
  /\ token = "valid"
  /\ log = <<>>
  /\ seen = NoSeen
  /\ tablesResult = <<>>
  /\ columnsResult = <<>>
  /\ totalCount = 0
  /\ mainRecord = <<>>
  /\ relationships = <<>>
  /\ relIdx = 0
  /\ relatedRecords = <<>>
  /\ resp = NoResp
  /\ \/ /\ op = "listRows"
        /\ pc = "lr_tableCheck"
        /\ \E pg \in PageInputs, lm \in LimitInputs, se \in StringsUpTo(1) :
             params = [table |-> "otps", id |-> <<>>,
                       page |-> ParseIntOr(pg, DefaultPage),
                       limit |-> ParseIntOr(lm, DefaultLimit),
                       search |-> se,
                       sortBy |-> StringOr("", "id"),
                       sortOrder |-> StringOr("", "ASC"),
                       offset |-> Offset(ParseIntOr(pg, DefaultPage),
                                         ParseIntOr(lm, DefaultLimit))]
     \/ /\ op = "resolve"
        /\ pc = "rs_cleanup"
        /\ \E rid \in RequestIds : params = [NoParams EXCEPT !.table = "otps", !.id = rid]

NextRace ==
  \/ OtherCleanup
  \/ LR_TableCheck
  \/ LR_Cleanup
  \/ LR_Columns
  \/ LR_Count
  \/ LR_Data
  \/ RS_Cleanup
  \/ RS_Main
  \/ RS_Edges
  \/ RS_Respond

SpecRace == InitRace /\ [][NextRace]_vars

(***************************************************************************)
(* app/api/users/route.ts : GET /api/users.                                *)
(***************************************************************************)
MaxColumns == 3

UsersColumnTypes == {"integer", "text", "character varying"}

\* The users tables the handler may find: the data_type of each column.
UsersColumnSets == UNION {[1..k -> UsersColumnTypes] : k \in 0..MaxColumns}

UsersPageInputs == {<<>>, <<2>>}

\* columns.map((col, idx) => text-like ? `${col}::text ILIKE $${arr.length + 1}`
\* : null).filter(Boolean), arr being searchParams_arr as it is during the map.
UsersSearchConditions(cols, arr) ==
  LET mapped == [i \in 1..Len(cols) |->
                   IF cols[i] \in {"character varying", "text", "character"}
                     THEN << [col |-> i, placeholder |-> Len(arr) + 1] >>
                     ELSE <<>>]
      kept == SelectSeq(mapped, LAMBDA t : t # <<>>)
  IN  [j \in 1..Len(kept) |-> kept[j][1]]

\* `%${search}%`
UsersPattern(search) == <<"%">> \o search \o <<"%">>

\* The store prepares a statement whose text uses $1..$k and binds it only
\* when exactly k parameters are supplied.
BindAccepted(q) == q.placeholders = 1..Len(q.params)

\* getSession(), then page, limit and search are parsed (route.ts:8-17).
U_Session ==
  /\ usersPc = "session"
  /\ IF ~ usersRequest.session
       THEN /\ usersResp' = ErrorResp(401, "Unauthorized")
            /\ usersPc' = "done"
       ELSE /\ usersPc' = "columns"
            /\ usersResp' = usersResp
  /\ UNCHANGED << apiVars, poolVars, raceVars, pageVars, usersColumns, usersRequest,
                  searchConditions, searchParams_arr, countQuery, dataQuery >>

\* The columns statement and the search condition built from it
\* (route.ts:22-49).
U_Columns ==
  /\ usersPc = "columns"
  /\ LET conds == IF usersRequest.search # <<>>
                    THEN UsersSearchConditions(usersColumns, searchParams_arr)
                    ELSE <<>>
     IN  /\ searchConditions' = conds
         /\ searchParams_arr' = [j \in 1..Len(conds) |-> UsersPattern(usersRequest.search)]
  /\ usersPc' = "count"
  /\ UNCHANGED << apiVars, poolVars, raceVars, pageVars, usersColumns, usersRequest,
                  countQuery, dataQuery, usersResp >>

\* db.query(countQuery, searchParams_arr) (route.ts:52-54); a rejected
\* statement is caught at route.ts:75-81.
U_Count ==
  /\ usersPc = "count"
  /\ LET q == [placeholders |-> {t.placeholder : t \in Range(searchConditions)},
               params |-> searchParams_arr, issued |-> TRUE]
     IN  /\ countQuery' = q
         /\ IF BindAccepted(q)
              THEN /\ usersPc' = "data"
                   /\ usersResp' = usersResp
              ELSE /\ usersPc' = "done"
                   /\ usersResp' = ErrorResp(500, "Failed to fetch users")
  /\ UNCHANGED << apiVars, poolVars, raceVars, pageVars, usersColumns, usersRequest,
                  searchConditions, searchParams_arr, dataQuery >>

\* db.query(dataQuery, [...searchParams_arr, limit, offset]) and the response
\* (route.ts:57-74).
U_Data ==
  /\ usersPc = "data"
  /\ LET n == Len(searchParams_arr)
         q == [placeholders |-> {t.placeholder : t \in Range(searchConditions)}
                                  \cup {n + 1, n + 2},
               params |-> searchParams_arr
                            \o << usersRequest.limit,
                                  Offset(usersRequest.page, usersRequest.limit) >>,
               issued |-> TRUE]
     IN  /\ dataQuery' = q
         /\ usersResp' = IF BindAccepted(q)
                           THEN [status |-> 200, kind |-> "users",
                                 page |-> usersRequest.page, limit |-> usersRequest.limit]
                           ELSE ErrorResp(500, "Failed to fetch users")
  /\ usersPc' = "done"
  /\ UNCHANGED << apiVars, poolVars, raceVars, pageVars, usersColumns, usersRequest,
                  searchConditions, searchParams_arr, countQuery >>

\* A GET /api/users request arrives, the users table having some columns.
InitUsers ==
  /\ ApiIdle
  /\ PoolUnused
  /\ Alone
  /\ PageClosed
  /\ usersColumns \in UsersColumnSets
  /\ \E ss \in BOOLEAN, pg \in UsersPageInputs, se \in StringsUpTo(1) :
       usersRequest = [session |-> ss, page |-> ParseIntOr(pg, DefaultPage),
                       limit |-> ParseIntOr(<<>>, DefaultLimit), search |-> se]
  /\ usersPc = "session"
  /\ searchConditions = <<>>
  /\ searchParams_arr = <<>>
  /\ countQuery = NoQuery
  /\ dataQuery = NoQuery
  /\ usersResp = NoResp

NextUsers ==
  \/ U_Session
  \/ U_Columns
  \/ U_Count
  \/ U_Data

SpecUsers == InitUsers /\ [][NextUsers]_vars

(***************************************************************************)
(* app/database/page.tsx : DatabaseExplorerPage.                           *)
(***************************************************************************)
MaxRequests == 4
MaxRowId == 2

\* The tables of the sidebar and the texts typed into the search box.
PageTables == {"users", "orders"}
PageSearches == {<<>>, <<"a">>}

\* The rows the store holds when the page is used: how many rows of a table
\* match a search.
ServerTotalCount(table, search) ==
  IF search # <<>> THEN 1
  ELSE IF table = "users" THEN 11
  ELSE 2

\* The body of a 200 answer of GET /api/database/<table>?page&limit&search:
\* data stands for the rows of that table, search and page (ids lists their
\* ids), columns for the columns of that table.
ListingAnswer(r) ==
  LET c == ServerTotalCount(r.table, r.search) IN
  [data |-> [table |-> r.table, search |-> r.search, page |-> r.page,
             ids |-> {i \in 1..c : Offset(r.page, r.limit) < i /\ i <= r.page * r.limit}],
   columns |-> r.table,
   pagination |-> [page |-> r.page, limit |-> r.limit, totalCount |-> c,
                   totalPages |-> TotalPages(c, r.limit)[1]]]

\* The body of a 200 answer of GET /api/database/<table>/<id>/relationships.
RelationshipAnswer(r) == [mainRecord |-> [table |-> r.table, id |-> r.id]]

\* The render that follows a state update: the effect on [selectedTable,
\* pagination.page, pagination.limit, searchQuery] calls fetchTableData() when
\* one of them changed; fetchTableData sets loading and sends the request.
\* pending, last and ld are listingFetches, lastListing and loading as the
\* update left them.
Effect(t, pg, se, pending, last, ld) ==
  IF << t, pg.page, pg.limit, se >>
       = << selectedTable, pagination.page, pagination.limit, searchQuery >>
    THEN /\ listingFetches' = pending
         /\ lastListing' = last
         /\ loading' = ld
         /\ issued' = issued
    ELSE LET r == [n |-> issued + 1, table |-> t, page |-> pg.page, limit |-> pg.limit,
                   search |-> se]
         IN  /\ issued < MaxRequests
             /\ listingFetches' = pending \cup {r}
             /\ lastListing' = [req |-> r, answer |-> "none"]
             /\ loading' = TRUE
             /\ issued' = issued + 1

\* onClick={() => setSelectedTable(table.table_name)}
SelectTable(t) ==
  /\ selectedTable' = t
  /\ Effect(t, pagination, searchQuery, listingFetches, lastListing, loading)
  /\ UNCHANGED << apiVars, poolVars, raceVars, usersVars, searchQuery, pagination, tableData,
                  pageColumns, view, selectedRow, relationshipData, loadingRelationships,
                  relationshipFetches >>

\* handleSearchChange(value)
handleSearchChange(value) ==
  /\ view = "list"
  /\ searchQuery' = value
  /\ pagination' = [pagination EXCEPT !.page = 1]
  /\ Effect(selectedTable, pagination', value, listingFetches, lastListing, loading)
  /\ UNCHANGED << apiVars, poolVars, raceVars, usersVars, selectedTable, tableData,
                  pageColumns, view, selectedRow, relationshipData, loadingRelationships,
                  relationshipFetches >>

\* onClick={() => setPagination(prev => ({ ...prev, page: pageNum }))}
SelectPage(pageNum) ==
  /\ view = "list"
  /\ pagination.totalPages > 0
  /\ pageNum \in 1..Min(5, pagination.totalPages)
  /\ pagination' = [pagination EXCEPT !.page = pageNum]
  /\ Effect(selectedTable, pagination', searchQuery, listingFetches, lastListing, loading)
  /\ UNCHANGED << apiVars, poolVars, raceVars, usersVars, selectedTable, searchQuery,
                  tableData, pageColumns, view, selectedRow, relationshipData,
                  loadingRelationships, relationshipFetches >>

\* fetchTableData() resumes with the response to request r.
ListingResponse(r, ok) ==
  /\ r \in listingFetches
  /\ LET a == ListingAnswer(r)
         last == IF lastListing.req = r
                   THEN [lastListing EXCEPT !.answer = IF ok THEN "ok" ELSE "failed"]
                   ELSE lastListing
     IN  IF ok
           THEN /\ tableData' = a.data
                /\ pageColumns' = a.columns
                /\ pagination' = a.pagination
                /\ Effect(selectedTable, a.pagination, searchQuery, listingFetches \ {r},
                          last, FALSE)
           ELSE /\ listingFetches' = listingFetches \ {r}
                /\ lastListing' = last
                /\ loading' = FALSE
                /\ UNCHANGED << tableData, pageColumns, pagination, issued >>
  /\ UNCHANGED << apiVars, poolVars, raceVars, usersVars, selectedTable, searchQuery, view,
                  selectedRow, relationshipData, loadingRelationships, relationshipFetches >>

\* handleRowClick(row) up to its fetch.
handleRowClick(rowId) ==
  /\ view = "list"
  /\ tableData # <<>>
  /\ rowId \in tableData.ids
  /\ issued < MaxRequests
  /\ selectedRow' = [table |-> selectedTable, id |-> rowId]
  /\ view' = "graph"
  /\ loadingRelationships' = TRUE
  /\ relationshipFetches' =
       relationshipFetches \cup {[n |-> issued + 1, table |-> selectedTable, id |-> rowId]}
  /\ issued' = issued + 1
  /\ UNCHANGED << apiVars, poolVars, raceVars, usersVars, selectedTable, searchQuery,
                  pagination, tableData, pageColumns, loading, relationshipData,
                  listingFetches, lastListing >>

\* handleRowClick(row) resumes with the response to request r.
RelationshipResponse(r, ok) ==
  /\ r \in relationshipFetches
  /\ relationshipFetches' = relationshipFetches \ {r}
  /\ relationshipData' = IF ok THEN RelationshipAnswer(r) ELSE relationshipData
  /\ loadingRelationships' = FALSE
  /\ UNCHANGED << apiVars, poolVars, raceVars, usersVars, selectedTable, searchQuery,
                  pagination, tableData, pageColumns, loading, view, selectedRow,
                  listingFetches, issued, lastListing >>

\* onClick={() => setView('list')} and onClick={() => setView('graph')}
SetView(v) ==
  /\ view' = v
  /\ UNCHANGED << apiVars, poolVars, raceVars, usersVars, selectedTable, searchQuery,
                  pagination, tableData, pageColumns, loading, selectedRow, relationshipData,
                  loadingRelationships, listingFetches, relationshipFetches, issued,
                  lastListing >>

\* onBack of RelationshipGraphView
onBack ==
  /\ view = "graph"
  /\ ~ loadingRelationships
  /\ relationshipData # <<>>
  /\ selectedRow' = <<>>
  /\ relationshipData' = <<>>
  /\ view' = "list"
  /\ UNCHANGED << apiVars, poolVars, raceVars, usersVars, selectedTable, searchQuery,
                  pagination, tableData, pageColumns, loading, loadingRelationships,
                  listingFetches, relationshipFetches, issued, lastListing >>

\* The page has mounted: its first render ran the effect, which called
\* fetchTableData().
InitPage ==
  /\ ApiIdle
  /\ PoolUnused
  /\ Alone
  /\ UsersIdle
  /\ selectedTable = "users"
  /\ searchQuery = <<>>
  /\ pagination = InitialPagination
  /\ tableData = <<>>
  /\ pageColumns = <<>>
  /\ loading = TRUE
  /\ view = "list"
  /\ selectedRow = <<>>
  /\ relationshipData = <<>>
  /\ loadingRelationships = FALSE
  /\ LET r == [n |-> 1, table |-> "users", page |-> InitialPagination.page,
               limit |-> InitialPagination.limit, search |-> <<>>]
     IN  /\ listingFetches = {r}
         /\ lastListing = [req |-> r, answer |-> "none"]
  /\ relationshipFetches = {}
  /\ issued = 1

NextPage ==
  \/ \E t \in PageTables : SelectTable(t)
  \/ \E value \in PageSearches : handleSearchChange(value)
  \/ \E pageNum \in 1..5 : SelectPage(pageNum)
  \/ \E r \in listingFetches, ok \in BOOLEAN : ListingResponse(r, ok)
  \/ \E rowId \in 1..MaxRowId : handleRowClick(rowId)
  \/ \E r \in relationshipFetches, ok \in BOOLEAN : RelationshipResponse(r, ok)
  \/ \E v \in {"list", "graph"} : SetView(v)
  \/ onBack

SpecPage == InitPage /\ [][NextPage]_vars

Next ==
  \/ \E o \in Ops, tk \in Tokens : Receive(o, tk)
  \/ Deliver
  \/ Expire
  \/ Middleware
  \/ LT_Session
  \/ LT_Tables
  \/ LT_TablesOnly
  \/ LT_Counts
  \/ LF_Session
  \/ LF_Query
  \/ LR_Session
  \/ LR_TableCheck
  \/ LR_Cleanup
  \/ LR_Columns
  \/ LR_Count
  \/ LR_Data
  \/ RS_Session
  \/ RS_Cleanup
  \/ RS_Main
  \/ RS_Edges
  \/ RS_Loop
  \/ RS_Respond

Spec == Init /\ [][Next]_vars

(***************************************************************************)
(* Properties.                                                             *)
(***************************************************************************)
\* The request in progress has been answered with status st.
Answered(o, st) == pc = "done" /\ op = o /\ resp.status = st

\* No statement of the request failed because the store was unreachable.
NoOutage == \A i \in 1..Len(log) : log[i].up

\* sub occurs in str as a literal substring, ignoring case.
Contains(str, sub) ==
  \E i \in 0..(Len(str) - Len(sub)) :
    LowerStr(SubSeq(str, i + 1, i + Len(sub))) = LowerStr(sub)

\* The text-like columns of a table of the public schema.
TextLikeColumns(table) ==
  {c.column_name : c \in {x \in Range(InfoColumns) :
      x.table_schema = "public" /\ x.table_name = table /\ x.data_type \in TextLikeTypes}}

\* The related-rows statement issued for the edge at position idx, if any.
Traversals(idx) ==
  {i \in 1..Len(log) : log[i].kind = "related" /\ log[i].nums = <<idx>>}

\* C1: in every listRows and resolve request, each table name and column name
\* interpolated into the text of a statement had been returned by a catalog
\* statement issued earlier in the same request.
C1_IdentifiersValidated ==
  op \in {"listRows", "resolve"} =>
    \A i \in 1..Len(log) :
      /\ log[i].tables \subseteq log[i].seenTables
      /\ log[i].columns \subseteq log[i].seenColumns

\* C2: listRows and resolve called with a table name that is not in the live
\* table list end with 404, and no statement whose text contains that name is
\* passed to the store.
C2_UnknownTableNotFound ==
  ( /\ pc = "done" /\ op \in {"listRows", "resolve"}
    /\ params # NoParams /\ params.table \notin PublicRelations
    /\ NoOutage )
  => /\ resp.status = 404
     /\ \A i \in 1..Len(log) : params.table \notin log[i].tables

\* C3: whichever operation is asked for, a request whose session yields no
\* principal is answered 401 and issues no statement.
C3_UnauthenticatedGets401 ==
  (pc = "done" /\ token # "valid") => (resp.status = 401 /\ log = <<>>)

\* C4: with a non-empty search string, every row listRows returns has the
\* string as a case-insensitive literal substring of the value of one of the
\* table's text-like columns.
C4_SearchIsLiteralSubstring ==
  (Answered("listRows", 200) /\ params.search # <<>>) =>
    \A i \in 1..Len(resp.data) :
      \E c \in TextLikeColumns(params.table) :
        /\ resp.data[i][c].t = "text"
        /\ Contains(resp.data[i][c].s, params.search)

\* C5: for page >= 1 and limit > 0 the rows returned are the rows at positions
\* (page-1)*limit+1 .. min(page*limit, totalCount) of the search-filtered rows
\* in the order of the validated sort column and direction, and the pagination
\* carries the same page and limit and the size of the filtered set.
C5_PageOfOrderedFilteredRows ==
  (Answered("listRows", 200) /\ params.page >= 1 /\ params.limit > 0) =>
    LET conds == SearchConditions(columnsResult, params.search)
        filtered == Filtered(db[params.table], conds, SearchParams(columnsResult, params.search))
        sortCol == ValidSortBy(ColumnNames(columnsResult), params.sortBy)
    IN /\ resp.pagination.page = params.page
       /\ resp.pagination.limit = params.limit
       /\ resp.pagination.totalCount = Len(filtered)
       /\ \E o \in SortedOrderings(filtered, sortCol, ValidSortOrder(params.sortOrder)) :
            resp.data = SubSeq(o, (params.page - 1) * params.limit + 1,
                               Min(params.page * params.limit, Len(filtered)))

C5_Witness ==
  /\ Answered("listRows", 200)
  /\ params.page = 2 /\ params.limit = 1 /\ params.search # <<>>
  /\ resp.pagination.totalCount = 2 /\ Len(resp.data) = 1

\* C6: for limit > 0 the totalPages reported is the ceiling of
\* totalCount / limit, and 0 when totalCount is 0.
C6_TotalPagesIsCeiling ==
  (Answered("listRows", 200) /\ params.limit > 0) =>
    LET tp == resp.pagination.totalPages
        tc == resp.pagination.totalCount
    IN /\ Len(tp) = 1
       /\ tp[1] * params.limit >= tc
       /\ (tp[1] - 1) * params.limit < tc
       /\ (tc = 0 => tp[1] = 0)

C6_Witness ==
  /\ Answered("listRows", 200)
  /\ params.limit = 2 /\ resp.pagination.totalCount = 3
  /\ resp.pagination.totalPages = <<2>>

\* C7: whatever the page parameter, the page listRows reports is >= 1 and the
\* OFFSET it passes to the store is >= 0.
C7_PageClamped ==
  op = "listRows" =>
    /\ \A i \in 1..Len(log) : log[i].kind = "data" => log[i].nums[2] >= 0
    /\ Answered("listRows", 200) => resp.pagination.page >= 1

\* C8: in resolve, an outbound edge is skipped when the main record's value in
\* fromColumn is null, and for every non-null value (0, '' and false included)
\* the rows of toTable whose toColumn equals the value are fetched.
C8_OutboundEdgeFetchedUnlessNull ==
  Answered("resolve", 200) =>
    \A idx \in 1..Len(relationships) :
      relationships[idx].from_table = params.table =>
        LET v == FieldOf(mainRecord[1], relationships[idx].from_column) IN
        IF v.t = "null"
          THEN Traversals(idx) = {}
          ELSE \E i \in Traversals(idx) :
                 /\ log[i].tables = {relationships[idx].to_table}
                 /\ log[i].columns = {relationships[idx].to_column}
                 /\ log[i].param = <<v>>

\* C9: in resolve, for every edge whose toTable is the requested table, a
\* self-referencing edge included, the rows of fromTable whose fromColumn
\* equals the main record's primary key are fetched.
C9_InboundEdgeFetched ==
  Answered("resolve", 200) =>
    \A idx \in 1..Len(relationships) :
      relationships[idx].to_table = params.table =>
        \E i \in Traversals(idx) :
          /\ log[i].tables = {relationships[idx].from_table}
          /\ log[i].columns = {relationships[idx].from_column}
          /\ log[i].param = <<TextV(params.id)>>

RECURSIVE FetchedFrom(_, _)
FetchedFrom(t, idx) ==
  IF idx > Len(relationships) THEN <<>>
  ELSE LET hits == {i \in Traversals(idx) : log[i].tables = {t}}
           rowsOf(i) == SelectWhereEq(db, t, CHOOSE c \in log[i].columns : TRUE,
                                      log[i].param[1]).rows
       IN (IF hits = {} THEN <<>> ELSE rowsOf(CHOOSE i \in hits : TRUE))
            \o FetchedFrom(t, idx + 1)

\* C11: for every table T, the rows resolve returns under T are the
\* concatenation, in the order of the edge list, of the rows fetched for each
\* traversed edge that reaches T, with no row removed as a duplicate; a table
\* is listed exactly when a traversed edge reaches it.
C11_RelatedRowsConcatenated ==
  Answered("resolve", 200) =>
    /\ {resp.relatedRecords[k].table : k \in 1..Len(resp.relatedRecords)} =
         UNION {log[i].tables : i \in {j \in 1..Len(log) : log[j].kind = "related"}}
    /\ \A k, m \in 1..Len(resp.relatedRecords) :
         resp.relatedRecords[k].table = resp.relatedRecords[m].table => k = m
    /\ \A k \in 1..Len(resp.relatedRecords) :
         resp.relatedRecords[k].rows = FetchedFrom(resp.relatedRecords[k].table, 1)

\* One row reached through two edges is listed twice.
C11_Witness ==
  /\ Answered("resolve", 200)
  /\ \E k \in 1..Len(resp.relatedRecords) :
       LET rows == resp.relatedRecords[k].rows IN
       /\ \E a, b \in 1..Len(rows) : a # b /\ rows[a] = rows[b]
       /\ Cardinality({idx \in 1..Len(relationships) :
             \E i \in Traversals(idx) : log[i].tables = {resp.relatedRecords[k].table}}) = 2

\* The statement at position i of the log did not complete: the store was
\* unreachable or rejected it.
StatementFailed(i) ==
  \/ ~ log[i].up
  \/ /\ log[i].kind = "main"
     /\ ~ SelectWhereEq(db, params.table, "id", log[i].param[1]).ok
  \/ /\ log[i].kind = "related"
     /\ ~ SelectWhereEq(db, CHOOSE t \in log[i].tables : TRUE,
                        CHOOSE c \in log[i].columns : TRUE, log[i].param[1]).ok

\* C12: when the main-record fetch, the edge query or the fetch for one edge
\* fails, resolve stops at that statement and answers with one error response
\* that carries neither mainRecord nor relatedRecords.
C12_FailureGivesSingleError ==
  ( /\ pc = "done" /\ op = "resolve"
    /\ \E i \in 1..Len(log) :
         log[i].kind \in {"main", "edges", "related"} /\ StatementFailed(i) )
  => /\ resp = ErrorResp(500, "Failed to fetch relationships")
     /\ DOMAIN resp \cap {"mainRecord", "relatedRecords", "relationships"} = {}
     /\ \A i \in 1..Len(log) :
          (log[i].kind \in {"main", "edges", "related"} /\ StatementFailed(i)) => i = Len(log)

\* The fetch for an edge fails after the rows of another edge were fetched.
C12_Witness ==
  /\ pc = "done" /\ op = "resolve"
  /\ relatedRecords # <<>>
  /\ log # <<>> /\ log[Len(log)].kind = "related" /\ StatementFailed(Len(log))
  /\ resp.status = 500

\* The row's primary key, compared with the :id path segment.
IdEquals(r, id) == CastText(r.id) = TextV(id)

\* C13: resolve on an existing table answers 404 exactly when no row of the
\* table has its primary key equal to id, and then fetches no related rows.
C13_NotFoundIffNoRow ==
  ( /\ pc = "done" /\ op = "resolve"
    /\ RelationOf(params.table) # <<>>
    /\ NoOutage )
  => LET rows == db[RelationOf(params.table)[1]] IN
     /\ (resp.status = 404) <=> (\A k \in 1..Len(rows) : ~ IdEquals(rows[k], params.id))
     /\ (resp.status = 404) => \A i \in 1..Len(log) : log[i].kind # "related"

\* The foreign-key constraints of the public schema and their constrained
\* columns, as the catalog lists them.
ForeignKeyConstraints ==
  {tc \in Range(InfoTableConstraints) :
     tc.constraint_type = "FOREIGN KEY" /\ tc.table_schema = "public"}

ConstrainedColumns(tc) ==
  {k.column_name : k \in {x \in Range(InfoKeyColumnUsage) :
     x.constraint_name = tc.constraint_name /\ x.table_schema = tc.table_schema}}

\* C14: for every foreign-key constraint over n columns, listForeignKeys
\* returns exactly n edges of that constraint, one for each constrained column.
C14_OneEdgePerConstrainedColumn ==
  Answered("listForeignKeys", 200) =>
    \A tc \in ForeignKeyConstraints :
      LET edges == {i \in 1..Len(resp.relationships) :
                      resp.relationships[i].constraint_name = tc.constraint_name}
      IN /\ Cardinality(edges) = Cardinality(ConstrainedColumns(tc))
         /\ \A i, j \in edges :
              resp.relationships[i].from_column = resp.relationships[j].from_column => i = j
         /\ {resp.relationships[i].from_column : i \in edges} = ConstrainedColumns(tc)

\* C15: listTables answers with every base table of the public schema, in
\* name order, whatever the tables hold and whether or not their rows could
\* be counted.
C15_EveryBaseTableListed ==
  Answered("listTables", 200) =>
    [i \in 1..Len(resp.tables) |-> resp.tables[i].table_name]
      = [i \in 1..Len(TablesQuery) |-> TablesQuery[i].table_name]

\* The columns of a table of the public schema, in declaration order.
DeclaredColumns(table) ==
  ColumnNames(ByOrdinal(SelectSeq(InfoColumns,
    LAMBDA r : r.table_schema = "public" /\ r.table_name = table), 1))

\* C16: the ORDER BY column of listRows is sortBy when sortBy is a column of
\* the table and the table's first declared column otherwise, and a request
\* that can only fail through its ORDER BY column (no search, offset >= 0,
\* store reachable) is answered 200.
C16_SortColumnValidated ==
  op = "listRows" =>
    \A i \in 1..Len(log) :
      log[i].kind = "data" =>
        /\ log[i].orderBy[1] =
             IF params.sortBy \in Range(DeclaredColumns(params.table))
               THEN params.sortBy
               ELSE DeclaredColumns(params.table)[1]
        /\ (pc = "done" /\ NoOutage /\ params.search = <<>> /\ params.offset >= 0)
             => resp.status = 200

\* The spellings of DESC, in upper and in lower case.
DescSpellings == {"DESC", "desc"}

\* C17 as stated: the direction in the ORDER BY clause is ASC or DESC, and it
\* is ASC for every input other than DESC.
C17_AscUnlessExactlyDesc ==
  op = "listRows" =>
    \A i \in 1..Len(log) :
      log[i].kind = "data" =>
        /\ log[i].orderBy[2] \in {"ASC", "DESC"}
        /\ params.sortOrder # "DESC" => log[i].orderBy[2] = "ASC"

\* C17 amended: the direction in the ORDER BY clause is ASC or DESC; it is
\* DESC exactly when the input spells DESC in any letter case.
C17_DescIgnoringCase ==
  op = "listRows" =>
    \A i \in 1..Len(log) :
      log[i].kind = "data" =>
        /\ log[i].orderBy[2] \in {"ASC", "DESC"}
        /\ (log[i].orderBy[2] = "DESC") <=> (params.sortOrder \in DescSpellings)

\* A lower-case desc sorts descending, any other word ascending.
C17_Witness ==
  /\ Answered("listRows", 200)
  /\ params.sortOrder = "desc"
  /\ log[Len(log)].orderBy[2] = "DESC"
  /\ Len(resp.data) >= 2
  /\ resp.data[1].id.n > resp.data[2].id.n

\* C18: with a non-empty search the WHERE predicate of the count and the page
\* statement has exactly one ILIKE term for each text-like column of the table
\* and for no other column, each bound to %search%; with an empty search, or
\* a table without text-like column, there is no predicate and no parameter.
C18_OneTermPerTextColumn ==
  op = "listRows" =>
    \A i \in 1..Len(log) :
      log[i].kind \in {"count", "data"} =>
        IF params.search = <<>> \/ TextLikeColumns(params.table) = {}
          THEN log[i].where = <<>> /\ log[i].patterns = <<>>
          ELSE /\ Range(log[i].where) = TextLikeColumns(params.table)
               /\ Len(log[i].where) = Cardinality(TextLikeColumns(params.table))
               /\ Len(log[i].patterns) = Len(log[i].where)
               /\ \A k \in 1..Len(log[i].patterns) :
                    log[i].patterns[k] = <<"%">> \o params.search \o <<"%">>

\* The cleanup statement of the request, if it issued one.
Cleanups == {i \in 1..Len(log) : log[i].kind = "cleanup"}

\* The row is older than the retention window.
Expired(r) == r.created_at.n < now - RetentionDays

\* C19: a cleanup DELETE that fails changes nothing and is not answered: the
\* table contents and the response are as before it, and the request stands
\* where it would stand had no cleanup been attempted (the columns statement
\* in listRows, the main-record fetch in resolve).
C19_CleanupFailureSwallowed ==
  [][ (pc \in {"lr_cleanup", "rs_cleanup"} /\ ~ log'[Len(log')].up)
        => /\ db' = db
           /\ resp' = resp
           /\ pc' = IF pc = "lr_cleanup" THEN "lr_columns" ELSE "rs_main" ]_vars

\* After a failed cleanup the rows are listed, the expired ones included.
C19_Witness ==
  /\ Answered("listRows", 200)
  /\ \E i \in Cleanups : ~ log[i].up
  /\ \E k \in 1..Len(resp.data) : Expired(resp.data[k])

\* The statements of a request that read rows of the table it asks for.
TableReads == {i \in 1..Len(log) : log[i].kind \in {"count", "data", "main"}}

\* C20: in a listRows or resolve request on the maintenance table the cleanup
\* DELETE comes before every read of the table; when it succeeded the response
\* holds no row older than the retention window; a request on any other table
\* issues no DELETE.
C20_CleanupBeforeReads ==
  /\ (op \in {"listRows", "resolve"} /\ toLowerCase(params.table) = "otps") =>
       /\ Cardinality(Cleanups) <= 1
       /\ \A i \in TableReads : \E c \in Cleanups : c < i
       /\ (pc = "done" /\ resp.status = 200 /\ \E c \in Cleanups : log[c].up) =>
            /\ op = "listRows" => \A k \in 1..Len(resp.data) : ~ Expired(resp.data[k])
            /\ op = "resolve" => ~ Expired(resp.mainRecord.data)
  /\ ~ (op \in {"listRows", "resolve"} /\ toLowerCase(params.table) = "otps") =>
       Cleanups = {}

\* The cleanup removed an expired row and the rows that remain are listed.
C20_Witness ==
  /\ Answered("listRows", 200)
  /\ \E c \in Cleanups : log[c].up
  /\ Len(db.otps) < Len(InitialRows.otps)
  /\ Len(resp.data) >= 1

\* C23: in one listRows request the count statement and the page statement
\* carry the same WHERE terms in the same order and the same search
\* parameters in the same positions, and the totalCount answered is the
\* number of rows that predicate selects.
C23_CountAndPageSamePredicate ==
  op = "listRows" =>
    /\ \A i, j \in 1..Len(log) :
         (log[i].kind = "count" /\ log[j].kind = "data") =>
           /\ log[i].where = log[j].where
           /\ log[i].patterns = log[j].patterns
           /\ log[i].tables = log[j].tables
    /\ Answered("listRows", 200) =>
         \E j \in 1..Len(log) :
           /\ log[j].kind = "data"
           /\ resp.pagination.totalCount =
                Len(Filtered(db[params.table], log[j].where, log[j].patterns))

\* Both statements of a search that selects some rows but not all.
C23_Witness ==
  /\ Answered("listRows", 200)
  /\ params.search # <<>>
  /\ log[Len(log)].where # <<>>
  /\ resp.pagination.totalCount >= 1
  /\ resp.pagination.totalCount < Len(db[params.table])

\* C24: every row resolve lists through an inbound edge references the main
\* record: its value in fromColumn equals the main record's value in the
\* edge's toColumn, whichever column toColumn is.
C24_InboundRowsReferenceMainRecord ==
  Answered("resolve", 200) =>
    \A idx \in 1..Len(relationships) :
      LET rel == relationships[idx] IN
      (EdgeBranch(rel, params.table, mainRecord[1]) = "inbound" /\ Traversals(idx) # {}) =>
        LET i == CHOOSE t \in Traversals(idx) : TRUE
            rows == SelectWhereEq(db, rel.from_table, rel.from_column, log[i].param[1]).rows
        IN \A k \in 1..Len(rows) :
             rows[k][rel.from_column] = FieldOf(mainRecord[1], rel.to_column)

\* The edge belongs to a foreign-key constraint of its fromTable that
\* constrains its fromColumn, and its toColumn is a column of toTable that a
\* constraint of that name uses.
EdgeIsDeclared(e) ==
  /\ \E tc \in ForeignKeyConstraints :
       /\ tc.table_name = e.from_table
       /\ \E k \in Range(InfoKeyColumnUsage) :
            /\ k.constraint_name = tc.constraint_name /\ k.table_schema = tc.table_schema
            /\ k.table_name = e.from_table /\ k.column_name = e.from_column
       /\ \E u \in Range(InfoConstraintColumnUsage) :
            /\ u.constraint_name = tc.constraint_name /\ u.table_schema = tc.table_schema
            /\ u.table_name = e.to_table /\ u.column_name = e.to_column
  /\ e.from_column \in ColumnsOfRelation(e.from_table)
  /\ e.to_column \in ColumnsOfRelation(e.to_table)

\* C25: every edge listForeignKeys returns and every edge resolve uses
\* corresponds to an existing foreign-key constraint, also when two tables
\* carry constraints of the same name.
C25_EdgesAreDeclaredConstraints ==
  /\ Answered("listForeignKeys", 200) =>
       \A i \in 1..Len(resp.relationships) : EdgeIsDeclared(resp.relationships[i])
  /\ (op = "resolve" /\ pc \in {"rs_loop", "done"}) =>
       \A i \in 1..Len(relationships) : EdgeIsDeclared(relationships[i])

\* C27: a listRows or resolve request answered 404 has issued no DELETE.
C27_NotFoundIssuedNoDelete ==
  (pc = "done" /\ op \in {"listRows", "resolve"} /\ resp.status = 404) => Cleanups = {}

\* C28: the columns listRows works with and answers are the columns of the
\* public table in declaration order, each once.
C28_ColumnsOfPublicTable ==
  /\ (op = "listRows" /\ pc \in {"lr_count", "lr_data"}) =>
       ColumnNames(columnsResult) = DeclaredColumns(params.table)
  /\ Answered("listRows", 200) => resp.columns = DeclaredColumns(params.table)

PoolMax == 20
IdleTimeoutMillis == 30000
ConnectionTimeoutMillis == 2000

\* C21: over any sequence of getDb() calls at most one Pool is constructed,
\* every call that returns gives that Pool, and its maximum size, idle timeout
\* and connect timeout are the same whichever branch constructed it.
C21_OnePoolReused ==
  /\ Len(pools) <= 1
  /\ \A i \in 1..Len(calls) : ~ calls[i].threw => (calls[i].got = <<1>> /\ pool = <<1>>)
  /\ \A k \in 1..Len(pools) :
       /\ pools[k].max = PoolMax
       /\ pools[k].idleTimeoutMillis = IdleTimeoutMillis
       /\ pools[k].connectionTimeoutMillis = ConnectionTimeoutMillis

\* Three handlers, two of them different, were given the one Pool.
C21_Witness ==
  /\ Len(calls) = MaxCalls
  /\ \A i \in 1..Len(calls) : ~ calls[i].threw
  /\ calls[1].by # calls[2].by
  /\ Len(pools) = 1

\* The otps rows a request meets when no other request deletes, and when the
\* DELETE of another request has committed: its own cleanup applies to both
\* unless it failed.
OtpsAsFound ==
  LET own == \E c \in Cleanups : log[c].up
  IN {IF own THEN CleanupOtps(InitialRows) ELSE InitialRows, CleanupOtps(InitialRows)}

\* Every statement of the request but its cleanup reached the store.
ReadsReachedStore == \A i \in 1..Len(log) : log[i].kind # "cleanup" => log[i].up

\* C22: the cleanup DELETE run again leaves otps as the first run left it,
\* and a request served while other requests run their DELETE answers as it
\* would with every such DELETE before all of its reads or after all of them:
\* the count and the page of listRows, and the main record of resolve, are
\* those of one and the same table contents.
C22_DeleteCommutesWithReads ==
  /\ deletes >= 1 => db = CleanupOtps(InitialRows)
  /\ (Answered("listRows", 200) /\ ReadsReachedStore) =>
       \E D \in OtpsAsFound :
         LET conds == SearchConditions(columnsResult, params.search)
             ps == SearchParams(columnsResult, params.search)
         IN /\ resp.pagination.totalCount = Len(CountQuery(D, params.table, conds, ps).rows)
            /\ \E r \in DataQuery(D, params.table, conds, ps, "id", "ASC",
                                   params.limit, params.offset) :
                 r.ok /\ resp.data = r.rows
  /\ (pc = "done" /\ op = "resolve" /\ ReadsReachedStore) =>
       \E D \in OtpsAsFound :
         LET main == SelectWhereEq(D, params.table, "id", TextV(params.id))
         IN IF ~ main.ok THEN resp.status = 500
            ELSE IF main.rows = <<>> THEN resp.status = 404
            ELSE resp.status = 200 /\ resp.mainRecord.data = main.rows[1]

\* C26: in GET /api/users, the placeholders in the text of the COUNT statement
\* are exactly $1..$n for its n bound parameters, and those in the text of the
\* page statement exactly $1..$(n+2) for its n+2 bound parameters (the search
\* patterns, then limit, then offset).
C26_PlaceholdersMatchParameters ==
  /\ countQuery.issued =>
       countQuery.placeholders = 1..Len(countQuery.params)
  /\ dataQuery.issued =>
       /\ dataQuery.placeholders = 1..Len(dataQuery.params)
       /\ dataQuery.params =
            countQuery.params
              \o << usersRequest.limit, Offset(usersRequest.page, usersRequest.limit) >>

\* C29: in the Database Explorer page, once every listing response has
\* arrived, the rows, columns and pagination shown are those of the response
\* to the most recently issued request, which is the one for the current
\* selectedTable, searchQuery and page; an older response arriving later does
\* not replace them.
C29_LatestListingShown ==
  (listingFetches = {} /\ lastListing.answer = "ok") =>
    /\ lastListing.req.table = selectedTable
    /\ lastListing.req.search = searchQuery
    /\ lastListing.req.page = pagination.page
    /\ tableData = ListingAnswer(lastListing.req).data
    /\ pageColumns = ListingAnswer(lastListing.req).columns
    /\ pagination = ListingAnswer(lastListing.req).pagination

\* C30: in the Database Explorer page, whenever loadingRelationships is false
\* and relationshipData is non-null, relationshipData.mainRecord is the row
\* identified by selectedRow; and loadingRelationships is false only when no
\* relationship request is in flight.
C30_RelationshipDataOfSelectedRow ==
  /\ (~ loadingRelationships /\ relationshipData # <<>>) =>
       relationshipData.mainRecord = selectedRow
  /\ ~ loadingRelationships => relationshipFetches = {}

====
